---- MODULE Spec2Model ----
(***************************************************************************)
(* The multi-agent eligibility workflow of agents/python/agent_wrapper.py: *)
(* the Flask routes /api/python/init and /api/python/query, the            *)
(* AgentOrchestrator and the four capability agents.  Every `await` of a   *)
(* platform call is a suspension point, so there is one action per         *)
(* platform call; the code that runs between two awaits is one step.       *)
(* The external Zynd platform is a collaborator whose answers are drawn in *)
(* the initial state (a mock with canned answers); any platform call may   *)
(* also raise.                                                             *)
(***************************************************************************)
EXTENDS Integers, Sequences, FiniteSets, TLC

\* ------------------------------------------------------------------ bounds
\* longest required_claims list the document store answers with
MaxReq == 3
\* longest list the platform's list_available_claims answers with
MaxAvail == 2
\* number of /api/python/query requests that can be in flight
NumQueries == 2

\* ------------------------------------------------------------- the universe
Agents == {"policy", "verifier", "citizen", "guide"}
Queries == 1..NumQueries
Claims == {"income", "residency"}
Creds == {"vc1", "vc2"}
Errors == {"PlatformCallError"}

\* Python's None, and a local that is not bound yet
None == [none |-> TRUE]

SeqsUpTo(S, n) == UNION {[1..k -> S] : k \in 0..n}

Range(f) == {f[x] : x \in DOMAIN f}

\* dict.get(key, default)
Get(d, key, default) == IF key \in DOMAIN d THEN d[key] ELSE default

\* ------------------------------------------------- the external platform
\* What query_documents answers: a policy document, whose keys may be missing.
PolicyDocument(required) ==
    [policy_id |-> "p1", name |-> "scheme", summary |-> "text",
     criteria |-> <<"rule1">>, required_claims |-> required]

PolicyDatas ==
    {PolicyDocument(r) : r \in SeqsUpTo(Claims, MaxReq)} \cup {[policy_id |-> "p1"]}

\* The canned answers of one platform.
Platforms ==
    [policy_data : PolicyDatas,
     wallet : [Claims -> Creds \cup {"None"}],
     available : SeqsUpTo(Claims, MaxAvail),
     valid : SUBSET Creds,
     all_satisfied : BOOLEAN,
     kb : {"steps", "nosteps"}]

\* The platforms of the start-up specification: the citizen holds "income" only.
StartupPlatforms ==
    {p \in Platforms :
        /\ p.policy_data = PolicyDocument(<<"income">>)
        /\ p.wallet = [c \in Claims |-> IF c = "income" THEN "vc1" ELSE "None"]
        /\ p.available = <<"residency">>
        /\ p.valid \subseteq {"vc1"}
        /\ p.all_satisfied
        /\ p.kb = "steps"}

\* selective_disclose(credential, claims): the derived credential and the value
Disclosed(cred, claims) ==
    [value |-> <<cred, claims>>, credential |-> [id |-> cred, claims |-> claims]]

\* execute_rules(rules, data)
RulesResults(p, rules, data) ==
    [all_satisfied |-> p.all_satisfied,
     evaluations |-> rules,
     reasoning |-> "rules evaluated"]

\* query_knowledge_base(query, context)
KnowledgeBase(p, query) ==
    IF p.kb = "steps"
    THEN [steps |-> <<query>>, required_documents |-> <<"form">>, timeline |-> "30 days"]
    ELSE [timeline |-> "30 days"]

\* load_credentials()
LoadedCredentials(p) == SelectSeq(<<"vc1", "vc2">>, LAMBDA c : c \in Range(p.wallet))

\* ------------------------------------------------------ agent identities
\* AgentConfig(did=..., seed=..., credential=..., capabilities=[...])
Capabilities(a) ==
    CASE a = "policy" -> <<"policy-analysis", "rag", "document-parsing">>
      [] a = "verifier" -> <<"credential-verification", "rule-engine", "eligibility-check">>
      [] a = "citizen" -> <<"identity-management", "credential-holder">>
      [] OTHER -> <<"guidance", "form-assistance">>

AgentConfig(a) ==
    [did |-> <<"did", a>>, seed |-> <<"seed", a>>, credential |-> <<"credential", a>>,
     capabilities |-> Capabilities(a)]

NoConfig == [a \in Agents |-> None]

VARIABLES
    platform,      \* the external platform's canned answers
    orchestrator,  \* the module global `orchestrator`
    config,        \* each agent's self.config
    agent,         \* each agent's self.agent and its platform session
    credentials,   \* citizen_agent.credentials
    initpc,        \* the /api/python/init handler
    initResponse,  \* what /api/python/init answered
    ipc,           \* the four initialize() tasks of asyncio.gather
    lifecycle,     \* history: the lifecycle calls each agent made
    q,             \* the locals of each /api/python/query handler
    calls          \* history: the platform calls each query made

vars ==
    <<platform, orchestrator, config, agent, credentials, initpc, initResponse,
      ipc, lifecycle, q, calls>>

agentVars == <<orchestrator, config, agent, credentials>>
initVars == <<initpc, initResponse, ipc, lifecycle>>
queryVars == <<q, calls>>

\* ------------------------------------------------ the agents' own code
\* PolicyInterpreterAgent.analyze_policy: the dict built from policy_data
PolicyInfo(policy_data) ==
    [id |-> Get(policy_data, "policy_id", "None"),
     name |-> Get(policy_data, "name", "None"),
     summary |-> Get(policy_data, "summary", "None"),
     eligibilityCriteria |-> Get(policy_data, "criteria", <<>>),
     requiredClaims |-> Get(policy_data, "required_claims", <<>>)]

\* f"{claim}: {disclosed['value']}"
SharedEntry(claim, disclosed) == [claim |-> claim, value |-> disclosed.value]

\* faulty variant: the available claims are not filtered by the requested ones
NotSharedUnfiltered(all_claims, requested_claims) == all_claims

\* [c for c in all_claims if c not in requested_claims]
NotShared(all_claims, requested_claims) ==
    SelectSeq(all_claims, LAMBDA c : c \notin Range(requested_claims))

\* the dict share_selective_claims returns
Disclosure(shared, not_shared, shared_creds) ==
    [shared |-> shared, notShared |-> not_shared, credentials |-> shared_creds,
     disclosedBy |-> config["citizen"].did]

\* the dict check_eligibility returns when verify_credentials returned False
VerificationFailed ==
    [decision |-> "Not Eligible", reason |-> "Credential verification failed"]

\* the dict check_eligibility returns after execute_rules
EligibilityResult(results) ==
    [decision |-> IF results.all_satisfied THEN "Eligible" ELSE "Not Eligible",
     evaluations |-> results.evaluations,
     reasoning |-> results.reasoning,
     verifiedBy |-> config["verifier"].did]

\* f"application_process_{eligibility_result['decision']}"
GuidanceQuery(eligibility_result) == <<"application_process", eligibility_result.decision>>

\* the dict generate_guidance returns
Guidance(eligibility_result, guidance) ==
    [decision |-> eligibility_result.decision,
     steps |-> Get(guidance, "steps", <<>>),
     documents |-> Get(guidance, "required_documents", <<>>),
     timeline |-> Get(guidance, "timeline", "None"),
     generatedBy |-> config["guide"].did]

\* ---------------------------------------------------- the orchestrator
\* workflow.append({'step': step, 'status': status})
Entry(step, status) == [step |-> step, status |-> status]

\* faulty variant: the 'started' entry is never recorded
StartedNotRecorded(s, step) == s

Started(s, step) == [s EXCEPT !.workflow = Append(@, Entry(step, "started"))]

\* faulty variant: the 'started' entry of the step is rewritten into its 'complete' entry
CompleteRewrites(s, step) ==
    [s EXCEPT !.workflow = [k \in 1..Len(@) |->
                               IF k = Len(@) THEN Entry(step, "complete") ELSE @[k]]]

Complete(s, step) == [s EXCEPT !.workflow = Append(@, Entry(step, "complete"))]

\* {**result, 'nextSteps': guidance['steps']}
WithNextSteps(result, guidance) == [nextSteps |-> guidance.steps] @@ result

\* faulty variant: the credential request echoes the claims that were disclosed
SuccessResultEchoesDisclosed(workflow, policy_info, disclosure, result, guidance) ==
    [success |-> TRUE,
     workflow |-> workflow,
     credentialRequest |->
         [requestedClaims |-> [k \in 1..Len(disclosure.shared) |-> disclosure.shared[k].claim],
          requestedBy |-> config["verifier"].did],
     disclosure |-> disclosure,
     eligibilityResult |-> WithNextSteps(result, guidance)]

\* the dict process_query returns after the four stages
SuccessResult(workflow, policy_info, disclosure, result, guidance) ==
    [success |-> TRUE,
     workflow |-> workflow,
     credentialRequest |->
         [requestedClaims |-> policy_info.requiredClaims,
          requestedBy |-> config["verifier"].did],
     disclosure |-> disclosure,
     eligibilityResult |-> WithNextSteps(result, guidance)]

\* the dict process_query returns from its except clause
FailureResult(e, workflow) == [success |-> FALSE, error |-> e, workflow |-> workflow]

\* the locals of a query handler that has not started
Idle ==
    [pc |-> "idle", workflow |-> <<>>, ops |-> <<>>, policy_info |-> None, i |-> 0,
     cred |-> "None", shared |-> <<>>, shared_creds |-> <<>>, disclosure |-> None, j |-> 0,
     result |-> None, response |-> None, escaped |-> FALSE]

\* history: the agent operation process_query invokes next
Invoke(s, op) == [s EXCEPT !.ops = Append(@, op)]

\* an exception that reaches Flask: the route has no handler of its own
Escape(s, e) == [s EXCEPT !.pc = "done", !.escaped = TRUE, !.response = [raw |-> e]]

\* faulty variant: no except clause, the exception leaves process_query
ExceptMissing(s, e) == Escape(s, e)

\* faulty variant: the failure result keeps the disclosure computed before the failure
ExceptKeepsPartial(s, e) ==
    [s EXCEPT !.pc = "done",
              !.response = [disclosure |-> s.disclosure] @@ FailureResult(e, s.workflow)]

\* except Exception as e: return {...}
Except(s, e) == [s EXCEPT !.pc = "done", !.response = FailureResult(e, s.workflow)]

\* process_query up to its first await: the trace is created and stage 1 starts
Discovery(s) ==
    Invoke(Started([s EXCEPT !.pc = "discovery", !.workflow = <<>>], "discovery"),
           "analyze_policy")

\* the for loop of share_selective_claims: the next claim, or the end of the loop
NextClaim(s) ==
    [s EXCEPT !.pc = IF s.i <= Len(s.policy_info.requiredClaims) THEN "find" ELSE "list",
              !.cred = "None"]

\* analyze_policy returned: stage 1 completes, stage 2 starts
AfterAnalyzePolicy(s, policy_data) ==
    LET s1 == [s EXCEPT !.policy_info = PolicyInfo(policy_data)]
        s2 == Invoke(Started(Complete(s1, "discovery"), "credentials"),
                     "share_selective_claims")
    IN  NextClaim([s2 EXCEPT !.shared = <<>>, !.shared_creds = <<>>, !.i = 1])

\* faulty variant: a requested claim without a credential is an error
AfterFindCredentialRaises(s, cred) ==
    IF cred # "None"
    THEN [s EXCEPT !.pc = "disclose", !.cred = cred]
    ELSE Except(s, "KeyError")

\* find_credential_for_claim returned: `if cred:` discloses, otherwise the claim is skipped
AfterFindCredential(s, cred) ==
    IF cred # "None"
    THEN [s EXCEPT !.pc = "disclose", !.cred = cred]
    ELSE NextClaim([s EXCEPT !.i = @ + 1])

\* selective_disclose returned: the value and the credential are appended
AfterSelectiveDisclose(s, disclosed) ==
    LET claim == s.policy_info.requiredClaims[s.i]
    IN  NextClaim([s EXCEPT !.shared = Append(@, SharedEntry(claim, disclosed)),
                            !.shared_creds = Append(@, disclosed.credential),
                            !.i = @ + 1])

\* the for loop of verify_credentials: the next credential, or `return True`
NextCredential(s) ==
    [s EXCEPT !.pc = IF s.j <= Len(s.disclosure.credentials) THEN "verify" ELSE "rules"]

\* faulty variant: an empty credential list counts as a failed verification
AfterListAvailableClaimsRejectsEmpty(s, all_claims) ==
    LET not_shared == NotShared(all_claims, s.policy_info.requiredClaims)
        s1 == [s EXCEPT !.disclosure = Disclosure(s.shared, not_shared, s.shared_creds)]
        s2 == Invoke(Started(Complete(s1, "credentials"), "eligibility"),
                     "check_eligibility")
    IN  IF s.shared_creds = <<>>
        THEN Invoke(Started(Complete([s2 EXCEPT !.j = 1, !.pc = "guidance",
                                                !.result = VerificationFailed],
                                     "eligibility"), "guidance"),
                    "generate_guidance")
        ELSE NextCredential([s2 EXCEPT !.j = 1])

\* list_available_claims returned: stage 2 completes, stage 3 starts
AfterListAvailableClaims(s, all_claims) ==
    LET not_shared == NotShared(all_claims, s.policy_info.requiredClaims)
        s1 == [s EXCEPT !.disclosure = Disclosure(s.shared, not_shared, s.shared_creds)]
        s2 == Invoke(Started(Complete(s1, "credentials"), "eligibility"),
                     "check_eligibility")
    IN  NextCredential([s2 EXCEPT !.j = 1])

\* check_eligibility returned: stage 3 completes, stage 4 starts
AfterCheckEligibility(s, result) ==
    Invoke(Started(Complete([s EXCEPT !.pc = "guidance", !.result = result],
                            "eligibility"), "guidance"),
           "generate_guidance")

\* faulty variant: an invalid credential is remembered only when it is the last one
AfterVerifyCredentialNoShortCircuit(s, is_valid) ==
    IF ~is_valid /\ s.j >= Len(s.disclosure.credentials)
    THEN AfterCheckEligibility(s, VerificationFailed)
    ELSE NextCredential([s EXCEPT !.j = @ + 1])

\* faulty variant: a failed verification falls through to the rule engine
AfterVerifyCredentialRunsRules(s, is_valid) ==
    IF ~is_valid
    THEN [s EXCEPT !.pc = "rules"]
    ELSE NextCredential([s EXCEPT !.j = @ + 1])

\* faulty variant: the answer of verify_credential is ignored
AfterVerifyCredentialIgnored(s, is_valid) == NextCredential([s EXCEPT !.j = @ + 1])

\* faulty variant: a failed verification is raised as an exception
AfterVerifyCredentialRaises(s, is_valid) ==
    IF ~is_valid
    THEN Except(s, "VerificationFailure")
    ELSE NextCredential([s EXCEPT !.j = @ + 1])

\* faulty variant: a failed verification asks the citizen for the claims again
AfterVerifyCredentialAsksAgain(s, is_valid) ==
    IF ~is_valid
    THEN NextClaim([s EXCEPT !.i = 1])
    ELSE NextCredential([s EXCEPT !.j = @ + 1])

\* verify_credential returned: `if not is_valid: return False`, which check_eligibility
\* turns into its 'Credential verification failed' result
AfterVerifyCredential(s, is_valid) ==
    IF ~is_valid
    THEN AfterCheckEligibility(s, VerificationFailed)
    ELSE NextCredential([s EXCEPT !.j = @ + 1])

\* execute_rules returned
AfterExecuteRules(s, results) == AfterCheckEligibility(s, EligibilityResult(results))

\* query_knowledge_base returned: stage 4 completes and the result is assembled
AfterGenerateGuidance(s, guidance_data) ==
    LET guidance == Guidance(s.result, guidance_data)
        s1 == Complete(s, "guidance")
    IN  [s1 EXCEPT !.pc = "done",
                   !.response = SuccessResult(s1.workflow, s.policy_info, s.disclosure,
                                              s.result, guidance)]

\* ------------------------------------------------------------ /api/python/init
\* history: one platform call of a query
\* (error: what it raised; ready: whether the agent's initialize() had completed)
Call(op, a, arg, error, ret) ==
    [op |-> op, agent |-> a, arg |-> arg, ok |-> error = "None", error |-> error,
     ret |-> ret, ready |-> ipc[a] = "done"]

\* init_agents: AgentOrchestrator() builds the four agents from the environment
\* (json.loads of a malformed credential raises), then initialize_all starts the
\* four initialize() tasks of asyncio.gather
InitAgents ==
    /\ initpc = "idle"
    /\ \/ /\ initpc' = "failed"
          /\ initResponse' = [raw |-> "ConfigurationError"]
          /\ UNCHANGED <<agentVars, ipc>>
       \/ /\ orchestrator' = "AgentOrchestrator"
          /\ config' = [a \in Agents |-> AgentConfig(a)]
          /\ agent' = [a \in Agents |-> "None"]
          /\ credentials' = <<>>
          /\ initpc' = "gather"
          /\ ipc' = [a \in Agents |-> "start"]
          /\ UNCHANGED initResponse
    /\ UNCHANGED <<platform, lifecycle, queryVars>>

\* faulty variant: the handle is created and registered without the platform's initialize
CreateAgentSkipsInitialize(a) ==
    /\ initpc = "gather"
    /\ ipc[a] = "start"
    /\ agent' = [agent EXCEPT ![a] = "created"]
    /\ ipc' = [ipc EXCEPT ![a] = "register"]
    /\ UNCHANGED <<platform, orchestrator, config, credentials, initpc, initResponse,
                   lifecycle, queryVars>>

\* initialize(): self.agent = Agent(self.config), then the platform's initialize is awaited
CreateAgent(a) ==
    /\ initpc = "gather"
    /\ ipc[a] = "start"
    /\ agent' = [agent EXCEPT ![a] = "created"]
    /\ ipc' = [ipc EXCEPT ![a] = "initialize"]
    /\ UNCHANGED <<platform, orchestrator, config, credentials, initpc, initResponse,
                   lifecycle, queryVars>>

\* await self.agent.initialize() returns or raises
AgentInitialize(a) ==
    /\ initpc = "gather"
    /\ ipc[a] = "initialize"
    /\ lifecycle' = [lifecycle EXCEPT ![a] = Append(@, "initialize")]
    /\ \/ /\ agent' = [agent EXCEPT ![a] = "initialized"]
          /\ ipc' = [ipc EXCEPT ![a] = "register"]
       \/ /\ ipc' = [ipc EXCEPT ![a] = "failed"]
          /\ UNCHANGED agent
    /\ UNCHANGED <<platform, orchestrator, config, credentials, initpc, initResponse,
                   queryVars>>

\* await self.agent.register() returns or raises; the Citizen agent goes on to load
\* its credentials, the other agents are done
AgentRegister(a) ==
    /\ initpc = "gather"
    /\ ipc[a] = "register"
    /\ lifecycle' = [lifecycle EXCEPT ![a] = Append(@, "register")]
    /\ \/ /\ agent' = [agent EXCEPT ![a] = "registered"]
          /\ ipc' = [ipc EXCEPT ![a] = IF a = "citizen" THEN "load" ELSE "done"]
       \/ /\ ipc' = [ipc EXCEPT ![a] = "failed"]
          /\ UNCHANGED agent
    /\ UNCHANGED <<platform, orchestrator, config, credentials, initpc, initResponse,
                   queryVars>>

\* self.credentials = await self.agent.load_credentials()
AgentLoadCredentials ==
    /\ initpc = "gather"
    /\ ipc["citizen"] = "load"
    /\ lifecycle' = [lifecycle EXCEPT !["citizen"] = Append(@, "load_credentials")]
    /\ \/ /\ credentials' = LoadedCredentials(platform)
          /\ ipc' = [ipc EXCEPT !["citizen"] = "done"]
       \/ /\ ipc' = [ipc EXCEPT !["citizen"] = "failed"]
          /\ UNCHANGED credentials
    /\ UNCHANGED <<platform, orchestrator, config, agent, initpc, initResponse, queryVars>>

\* faulty variant: gather collects the exceptions of the tasks instead of raising them
InitializeAllCollectsExceptions ==
    /\ initpc = "gather"
    /\ \A a \in Agents : ipc[a] \in {"done", "failed"}
    /\ initpc' = "done"
    /\ initResponse' = [status |-> "initialized"]
    /\ UNCHANGED <<platform, agentVars, ipc, lifecycle, queryVars>>

\* asyncio.gather returns when the four tasks are done; init_agents answers
InitializeAllReturns ==
    /\ initpc = "gather"
    /\ \A a \in Agents : ipc[a] = "done"
    /\ initpc' = "done"
    /\ initResponse' = [status |-> "initialized"]
    /\ UNCHANGED <<platform, agentVars, ipc, lifecycle, queryVars>>

\* asyncio.gather raises the first exception of a task; it reaches Flask, and the
\* handler's event loop ends with the tasks that were still running
InitializeAllRaises ==
    /\ initpc = "gather"
    /\ \E a \in Agents : ipc[a] = "failed"
    /\ initpc' = "failed"
    /\ initResponse' = [raw |-> "PlatformCallError"]
    /\ UNCHANGED <<platform, agentVars, ipc, lifecycle, queryVars>>

\* ----------------------------------------------------------- /api/python/query
\* faulty variant: the trace is one list kept on the orchestrator, which a query
\* that starts finds holding the entries of the queries before it
ProcessQuerySharedTrace(n) ==
    /\ q[n].pc = "idle"
    /\ q' = [q EXCEPT ![n] =
                IF orchestrator = "None"
                THEN Escape(q[n], "AttributeError")
                ELSE LET m == CHOOSE m \in Queries : m # n
                     IN  Invoke(Started([q[n] EXCEPT !.pc = "discovery",
                                                     !.workflow = q[m].workflow],
                                        "discovery"),
                                "analyze_policy")]
    /\ UNCHANGED <<platform, agentVars, initVars, calls>>

\* the route: orchestrator.process_query(data['query']); with no orchestrator the
\* attribute lookup raises outside process_query
ProcessQuery(n) ==
    /\ q[n].pc = "idle"
    /\ q' = [q EXCEPT ![n] = IF orchestrator = "None"
                             THEN Escape(q[n], "AttributeError")
                             ELSE Discovery(q[n])]
    /\ UNCHANGED <<platform, agentVars, initVars, calls>>

\* faulty variant: a disclosed credential is taken out of the citizen's shared list
PlatformCallConsumesCredential(n, a, op, arg, ret, returned) ==
    /\ \/ /\ agent[a] = "None"
          /\ q' = [q EXCEPT ![n] = Except(q[n], "AttributeError")]
          /\ calls' = [calls EXCEPT ![n] = Append(@, Call(op, a, arg, "AttributeError", None))]
          /\ UNCHANGED credentials
       \/ /\ agent[a] # "None"
          /\ \E e \in Errors :
                /\ q' = [q EXCEPT ![n] = Except(q[n], e)]
                /\ calls' = [calls EXCEPT ![n] = Append(@, Call(op, a, arg, e, None))]
          /\ UNCHANGED credentials
       \/ /\ agent[a] # "None"
          /\ q' = [q EXCEPT ![n] = returned]
          /\ calls' = [calls EXCEPT ![n] = Append(@, Call(op, a, arg, "None", ret))]
          /\ credentials' = IF op = "selective_disclose"
                            THEN SelectSeq(credentials, LAMBDA c : c # arg.credential)
                            ELSE credentials
    /\ UNCHANGED <<platform, orchestrator, config, agent, initVars>>

\* One awaited platform call of agent a: self.agent is None (AttributeError), or the
\* platform raises, or it returns and the handler runs on to its next await.
PlatformCall(n, a, op, arg, ret, returned) ==
    /\ \/ /\ agent[a] = "None"
          /\ q' = [q EXCEPT ![n] = Except(q[n], "AttributeError")]
          /\ calls' = [calls EXCEPT ![n] = Append(@, Call(op, a, arg, "AttributeError", None))]
       \/ /\ agent[a] # "None"
          /\ \E e \in Errors :
                /\ q' = [q EXCEPT ![n] = Except(q[n], e)]
                /\ calls' = [calls EXCEPT ![n] = Append(@, Call(op, a, arg, e, None))]
       \/ /\ agent[a] # "None"
          /\ q' = [q EXCEPT ![n] = returned]
          /\ calls' = [calls EXCEPT ![n] = Append(@, Call(op, a, arg, "None", ret))]
    /\ UNCHANGED <<platform, agentVars, initVars>>

\* analyze_policy: await self.agent.query_documents(...)
QueryDocuments(n) ==
    /\ q[n].pc = "discovery"
    /\ PlatformCall(n, "policy", "query_documents", "query", platform.policy_data,
                    AfterAnalyzePolicy(q[n], platform.policy_data))

\* share_selective_claims: await self.agent.find_credential_for_claim(claim)
FindCredentialForClaim(n) ==
    /\ q[n].pc = "find"
    /\ LET claim == q[n].policy_info.requiredClaims[q[n].i]
       IN  PlatformCall(n, "citizen", "find_credential_for_claim", claim,
                        platform.wallet[claim],
                        AfterFindCredential(q[n], platform.wallet[claim]))

\* faulty variant: the credential is disclosed for every requested claim at once
SelectiveDiscloseAllClaims(n) ==
    /\ q[n].pc = "disclose"
    /\ LET claims == q[n].policy_info.requiredClaims
       IN  PlatformCall(n, "citizen", "selective_disclose",
                        [credential |-> q[n].cred, claims |-> claims],
                        Disclosed(q[n].cred, claims),
                        AfterSelectiveDisclose(q[n], Disclosed(q[n].cred, claims)))

\* share_selective_claims: await self.agent.selective_disclose(credential=cred, claims=[claim])
SelectiveDisclose(n) ==
    /\ q[n].pc = "disclose"
    /\ LET claim == q[n].policy_info.requiredClaims[q[n].i]
       IN  PlatformCall(n, "citizen", "selective_disclose",
                        [credential |-> q[n].cred, claims |-> <<claim>>],
                        Disclosed(q[n].cred, <<claim>>),
                        AfterSelectiveDisclose(q[n], Disclosed(q[n].cred, <<claim>>)))

\* share_selective_claims: await self.agent.list_available_claims()
ListAvailableClaims(n) ==
    /\ q[n].pc = "list"
    /\ PlatformCall(n, "citizen", "list_available_claims", "None", platform.available,
                    AfterListAvailableClaims(q[n], platform.available))

\* verify_credentials: await self.agent.verify_credential(cred)
VerifyCredential(n) ==
    /\ q[n].pc = "verify"
    /\ LET cred == q[n].disclosure.credentials[q[n].j]
       IN  PlatformCall(n, "verifier", "verify_credential", cred, cred.id \in platform.valid,
                        AfterVerifyCredential(q[n], cred.id \in platform.valid))

\* check_eligibility: await self.agent.execute_rules(rules=..., data=credentials)
ExecuteRules(n) ==
    /\ q[n].pc = "rules"
    /\ LET rules == q[n].policy_info.eligibilityCriteria
           data == q[n].disclosure.credentials
       IN  PlatformCall(n, "verifier", "execute_rules", [rules |-> rules, data |-> data],
                        RulesResults(platform, rules, data),
                        AfterExecuteRules(q[n], RulesResults(platform, rules, data)))

\* generate_guidance: await self.agent.query_knowledge_base(query=..., context=...)
QueryKnowledgeBase(n) ==
    /\ q[n].pc = "guidance"
    /\ LET query == GuidanceQuery(q[n].result)
       IN  PlatformCall(n, "guide", "query_knowledge_base",
                        [query |-> query, context |-> q[n].result],
                        KnowledgeBase(platform, query),
                        AfterGenerateGuidance(q[n], KnowledgeBase(platform, query)))

\* every step of one /api/python/query request
Query(n) ==
    \/ ProcessQuery(n)
    \/ QueryDocuments(n)
    \/ FindCredentialForClaim(n)
    \/ SelectiveDisclose(n)
    \/ ListAvailableClaims(n)
    \/ VerifyCredential(n)
    \/ ExecuteRules(n)
    \/ QueryKnowledgeBase(n)

\* every step of the /api/python/init request
Initialization ==
    \/ InitAgents
    \/ \E a \in Agents : CreateAgent(a)
    \/ \E a \in Agents : AgentInitialize(a)
    \/ \E a \in Agents : AgentRegister(a)
    \/ AgentLoadCredentials
    \/ InitializeAllReturns
    \/ InitializeAllRaises

\* --------------------------------------------------------- specifications
\* The service as it starts: no orchestrator yet, /api/python/init and one
\* /api/python/query request in any interleaving.
Init ==
    /\ platform \in StartupPlatforms
    /\ orchestrator = "None"
    /\ config = NoConfig
    /\ agent = [a \in Agents |-> "None"]
    /\ credentials = <<>>
    /\ initpc = "idle"
    /\ initResponse = None
    /\ ipc = [a \in Agents |-> "idle"]
    /\ lifecycle = [a \in Agents |-> <<>>]
    /\ q = [n \in Queries |-> Idle]
    /\ calls = [n \in Queries |-> <<>>]

Next == Initialization \/ Query(1)

Spec == Init /\ [][Next]_vars

\* The service after /api/python/init answered 'initialized'
Initialized(p) ==
    /\ platform = p
    /\ orchestrator = "AgentOrchestrator"
    /\ config = [a \in Agents |-> AgentConfig(a)]
    /\ agent = [a \in Agents |-> "registered"]
    /\ credentials = LoadedCredentials(p)
    /\ initpc = "done"
    /\ initResponse = [status |-> "initialized"]
    /\ ipc = [a \in Agents |-> "done"]
    /\ lifecycle = [a \in Agents |-> IF a = "citizen"
                                    THEN <<"initialize", "register", "load_credentials">>
                                    ELSE <<"initialize", "register">>]
    /\ q = [n \in Queries |-> Idle]
    /\ calls = [n \in Queries |-> <<>>]

\* One query against the initialized service, for every platform
InitQuery == \E p \in Platforms : Initialized(p)

NextQuery == Query(1)

SpecQuery == InitQuery /\ [][NextQuery]_vars

\* Concurrent queries against the initialized service
InitServing == \E p \in StartupPlatforms : Initialized(p)

NextServing == \E n \in Queries : Query(n)

SpecServing == InitServing /\ [][NextServing]_vars

\* ------------------------------------------------------------- properties
Steps == <<"discovery", "credentials", "eligibility", "guidance">>

\* the trace of a query whose four stages completed
FullTrace ==
    <<Entry("discovery", "started"), Entry("discovery", "complete"),
      Entry("credentials", "started"), Entry("credentials", "complete"),
      Entry("eligibility", "started"), Entry("eligibility", "complete"),
      Entry("guidance", "started"), Entry("guidance", "complete")>>

\* the agent operations of the four stages
AgentOps == <<"analyze_policy", "share_selective_claims", "check_eligibility", "generate_guidance">>

\* the stage whose agent operation makes the platform call op
Stage(op) ==
    CASE op = "query_documents" -> 1
      [] op \in {"find_credential_for_claim", "selective_disclose", "list_available_claims"} -> 2
      [] op \in {"verify_credential", "execute_rules"} -> 3
      [] OTHER -> 4

LastCall(n) == calls[n][Len(calls[n])]

\* the agent operation query n was in has failed
Failed(n) == calls[n] # <<>> /\ ~LastCall(n).ok

\* the verify_credential calls of query n, in order
VerifyLog(n) == SelectSeq(calls[n], LAMBDA c : c.op = "verify_credential")

\* verify_credential answered False in query n
VerificationFailedIn(n) ==
    \E k \in 1..Len(calls[n]) :
        calls[n][k].op = "verify_credential" /\ calls[n][k].ok /\ ~calls[n][k].ret

Succeeded(n) ==
    q[n].pc = "done" /\ "success" \in DOMAIN q[n].response /\ q[n].response.success

\* C1: when the agent operation of stage k fails, process_query returns success=false
\* with a trace of 2(k-1)+1 entries: a started/complete pair for every stage before k,
\* then the lone 'started' entry of stage k.
C1_FailureAtStageK ==
    \A n \in Queries :
        Failed(n) =>
            LET k == Stage(LastCall(n).op)
            IN  /\ q[n].pc = "done"
                /\ "success" \in DOMAIN q[n].response
                /\ q[n].response.success = FALSE
                /\ Len(q[n].response.workflow) = 2 * (k - 1) + 1
                /\ q[n].response.workflow = SubSeq(FullTrace, 1, 2 * (k - 1) + 1)

\* a query that failed in its guidance stage, after three completed stages
C1_Witness ==
    \E n \in Queries :
        /\ Failed(n)
        /\ Stage(LastCall(n).op) = 4
        /\ Len(q[n].response.workflow) = 7

\* C2 (as claimed): every platform call a query stage makes goes through an agent whose
\* initialize() has completed.
C2_InitializationBarrier ==
    \A n \in Queries :
        \A k \in 1..Len(calls[n]) :
            calls[n][k].error # "AttributeError" => calls[n][k].ready

\* C3: a failure of an agent operation inside process_query never reaches the route: it
\* is answered with {success: false, error, workflow}; the only raw failure is the
\* route's own lookup of a missing orchestrator, before process_query runs.
C3_RecoveryBoundary ==
    \A n \in Queries :
        /\ Failed(n) =>
              /\ q[n].pc = "done"
              /\ ~q[n].escaped
              /\ DOMAIN q[n].response = {"success", "error", "workflow"}
              /\ q[n].response.success = FALSE
              /\ q[n].response.error = LastCall(n).error
        /\ q[n].escaped => q[n].ops = <<>> /\ calls[n] = <<>>

\* a platform call raised in a later stage and the query answered with a failure result
C3_Witness ==
    \E n \in Queries :
        /\ Failed(n)
        /\ LastCall(n).error = "PlatformCallError"
        /\ Stage(LastCall(n).op) >= 2
        /\ q[n].response.success = FALSE

\* C4: verify_credentials checks the credentials in order, stops at the first invalid
\* one, and returns True only after every credential was verified.
C4_ShortCircuit ==
    \A n \in Queries :
        q[n].disclosure # None =>
            LET creds == q[n].disclosure.credentials
                log == VerifyLog(n)
            IN  /\ Len(log) <= Len(creds)
                /\ \A k \in 1..Len(log) : log[k].arg = creds[k]
                /\ \A k \in 1..(Len(log) - 1) : log[k].ok /\ log[k].ret
                /\ (q[n].pc = "rules" \/ \E k \in 1..Len(calls[n]) : calls[n][k].op = "execute_rules")
                      => /\ Len(log) = Len(creds)
                         /\ \A k \in 1..Len(log) : log[k].ok /\ log[k].ret
                /\ q[n].result = VerificationFailed
                      => /\ log # <<>>
                         /\ log[Len(log)].ok
                         /\ ~log[Len(log)].ret

\* the credentials [valid, invalid, valid]: two were verified, the third was not
C4_Witness ==
    \E n \in Queries :
        /\ q[n].disclosure # None
        /\ Len(q[n].disclosure.credentials) = 3
        /\ q[n].disclosure.credentials[3].id \in platform.valid
        /\ Len(VerifyLog(n)) = 2
        /\ VerifyLog(n)[1].ok /\ VerifyLog(n)[1].ret
        /\ VerifyLog(n)[2].ok /\ ~VerifyLog(n)[2].ret
        /\ q[n].pc = "done"

\* C5: when verification fails, execute_rules is never called and check_eligibility
\* returns {decision: Not Eligible, reason: Credential verification failed}.
C5_NoRulesAfterFailedVerification ==
    \A n \in Queries :
        VerificationFailedIn(n) =>
            /\ \A k \in 1..Len(calls[n]) : calls[n][k].op # "execute_rules"
            /\ q[n].result = [decision |-> "Not Eligible",
                              reason |-> "Credential verification failed"]

\* verification failed although the rule engine would have been satisfied
C5_Witness ==
    \E n \in Queries :
        /\ VerificationFailedIn(n)
        /\ platform.all_satisfied
        /\ q[n].pc = "done"

\* C6: every 'shared' entry is for a requested claim, and 'notShared' holds no
\* requested claim.
C6_DisclosureWithinRequest ==
    \A n \in Queries :
        q[n].disclosure # None =>
            LET requested == Range(q[n].policy_info.requiredClaims)
                d == q[n].disclosure
            IN  /\ \A k \in 1..Len(d.shared) : d.shared[k].claim \in requested
                /\ \A k \in 1..Len(d.notShared) : d.notShared[k] \notin requested

\* a disclosure that shares a claim, and whose notShared lost a requested claim the
\* platform listed as available
C6_Witness ==
    \E n \in Queries :
        /\ q[n].disclosure # None
        /\ q[n].disclosure.shared # <<>>
        /\ q[n].disclosure.notShared # <<>>
        /\ Len(q[n].disclosure.notShared) < Len(platform.available)

\* C7: when a presented credential is invalid the decision is Not Eligible, whatever
\* the rule engine would answer.
C7_InvalidCredentialNotEligible ==
    \A n \in Queries :
        (/\ q[n].result # None
         /\ \E k \in 1..Len(q[n].disclosure.credentials) :
                q[n].disclosure.credentials[k].id \notin platform.valid)
        => /\ q[n].result.decision = "Not Eligible"
           /\ Succeeded(n) => q[n].response.eligibilityResult.decision = "Not Eligible"

\* an invalid credential after a valid one, rules that would be satisfied, and the
\* workflow result says Not Eligible
C7_Witness ==
    \E n \in Queries :
        /\ Succeeded(n)
        /\ platform.all_satisfied
        /\ Len(q[n].disclosure.credentials) >= 2
        /\ q[n].disclosure.credentials[1].id \in platform.valid
        /\ q[n].disclosure.credentials[2].id \notin platform.valid
        /\ q[n].response.eligibilityResult.decision = "Not Eligible"

\* C8: a failed verification is a decision, not a workflow failure: when no call
\* raises, the eligibility stage completes, the guidance stage runs and the query
\* ends with success=true and decision Not Eligible.
C8_VerificationFailureIsADecision ==
    \A n \in Queries :
        (VerificationFailedIn(n) /\ \A k \in 1..Len(calls[n]) : calls[n][k].ok) =>
            /\ q[n].pc \in {"guidance", "done"}
            /\ Len(q[n].workflow) >= 7
            /\ SubSeq(q[n].workflow, 1, 7) = SubSeq(FullTrace, 1, 7)
            /\ q[n].pc = "done" =>
                  /\ Succeeded(n)
                  /\ q[n].response.workflow = FullTrace
                  /\ q[n].response.eligibilityResult.decision = "Not Eligible"
                  /\ LastCall(n).op = "query_knowledge_base"

\* a query whose verification failed and that ended with success=true
C8_Witness ==
    \E n \in Queries :
        /\ VerificationFailedIn(n)
        /\ Succeeded(n)
        /\ q[n].response.eligibilityResult.reason = "Credential verification failed"

\* C9 (as claimed): every result of check_eligibility carries verifiedBy = the
\* verifier's DID; evaluations only after the rules ran, reason only after a failed
\* verification.
C9_VerifiedByOnEveryResult ==
    \A n \in Queries :
        q[n].result # None =>
            /\ "verifiedBy" \in DOMAIN q[n].result
            /\ q[n].result.verifiedBy = config["verifier"].did
            /\ "evaluations" \in DOMAIN q[n].result <=> ~VerificationFailedIn(n)
            /\ "reason" \in DOMAIN q[n].result <=> VerificationFailedIn(n)

\* C10: the four agent operations are invoked at most once each and in order, each
\* only after the stage before it completed, and no platform call of an earlier
\* stage follows one of a later stage.
C10_StrictlyForward ==
    \A n \in Queries :
        LET ops == q[n].ops
            wf == q[n].workflow
        IN  /\ Len(ops) <= 4
            /\ ops = SubSeq(AgentOps, 1, Len(ops))
            /\ Len(wf) <= 8
            /\ wf = SubSeq(FullTrace, 1, Len(wf))
            /\ Len(wf) \in {2 * Len(ops) - 1, 2 * Len(ops)}
            /\ \A k \in 1..Len(calls[n]) : Stage(calls[n][k].op) <= Len(ops)
            /\ \A j, k \in 1..Len(calls[n]) :
                  j < k => Stage(calls[n][j].op) <= Stage(calls[n][k].op)
            /\ \A op \in {"query_documents", "list_available_claims", "execute_rules",
                          "query_knowledge_base"} :
                  Cardinality({k \in 1..Len(calls[n]) : calls[n][k].op = op}) <= 1

\* a query that went through the four stages with several platform calls
C10_Witness ==
    \E n \in Queries :
        /\ Succeeded(n)
        /\ q[n].ops = AgentOps
        /\ Len(calls[n]) >= 8
\* the calls of platform operation op in query n, in order
CallsOf(n, op) == SelectSeq(calls[n], LAMBDA c : c.op = op)

\* C11: in a successful result credentialRequest echoes the policy's required claims
\* and the verifier's DID, whatever was disclosed, and eligibilityResult.nextSteps are
\* the steps of the guidance.
C11_SuccessAssembly ==
    \A n \in Queries :
        Succeeded(n) =>
            LET r == q[n].response
                policy_data == CallsOf(n, "query_documents")[1].ret
                guidance_data == CallsOf(n, "query_knowledge_base")[1].ret
            IN  /\ r.credentialRequest.requestedClaims = Get(policy_data, "required_claims", <<>>)
                /\ r.credentialRequest.requestedClaims = q[n].policy_info.requiredClaims
                /\ r.credentialRequest.requestedBy = AgentConfig("verifier").did
                /\ r.eligibilityResult.nextSteps = Get(guidance_data, "steps", <<>>)
                /\ r.disclosure = q[n].disclosure

\* a successful result that requested claims, disclosed none, and carries next steps
C11_Witness ==
    \E n \in Queries :
        /\ Succeeded(n)
        /\ q[n].response.credentialRequest.requestedClaims # <<>>
        /\ q[n].response.disclosure.shared = <<>>
        /\ q[n].response.eligibilityResult.nextSteps # <<>>
\* query n is between its first step and its response
InFlight(n) == q[n].pc \notin {"idle", "done"}

\* C12: while queries run against the initialized service, in any interleaving, every
\* agent's identity (did, seed, credential, capabilities), its platform handle and the
\* citizen's credential list keep their values of the end of initialization.
C12_SharedAgentStateReadOnly ==
    /\ orchestrator = "AgentOrchestrator"
    /\ config = [a \in Agents |-> AgentConfig(a)]
    /\ agent = [a \in Agents |-> "registered"]
    /\ credentials = LoadedCredentials(platform)

\* two queries in flight together, one of them with a disclosure behind it
C12_Witness ==
    \E n, m \in Queries :
        /\ n # m
        /\ InFlight(n)
        /\ InFlight(m)
        /\ \E k \in 1..Len(calls[n]) :
              calls[n][k].op = "selective_disclose" /\ calls[n][k].ok
        /\ credentials # <<>>
\* process_query continued over one platform call of its own: the call raised, or it
\* returned c.ret to the agent operation that made it
Continue(s, c) ==
    IF ~c.ok THEN Except(s, c.error)
    ELSE CASE c.op = "query_documents" -> AfterAnalyzePolicy(s, c.ret)
           [] c.op = "find_credential_for_claim" -> AfterFindCredential(s, c.ret)
           [] c.op = "selective_disclose" -> AfterSelectiveDisclose(s, c.ret)
           [] c.op = "list_available_claims" -> AfterListAvailableClaims(s, c.ret)
           [] c.op = "verify_credential" -> AfterVerifyCredential(s, c.ret)
           [] c.op = "execute_rules" -> AfterExecuteRules(s, c.ret)
           [] OTHER -> AfterGenerateGuidance(s, c.ret)

\* process_query run alone over the platform responses of log
RECURSIVE Alone(_)
Alone(log) ==
    IF log = <<>> THEN Discovery(Idle)
    ELSE Continue(Alone(SubSeq(log, 1, Len(log) - 1)), log[Len(log)])

\* C13: under every interleaving of concurrent queries, the locals and the result of
\* each started query (trace, disclosure, eligibility result) are those of the same
\* query run alone over its own platform responses, whatever the other queries did,
\* failures included.
C13_RequestScoped ==
    \A n \in Queries :
        q[n].pc # "idle" => q[n] = Alone(calls[n])

\* one query failed after its first stage and another one succeeded
C13_Witness ==
    \E n, m \in Queries :
        /\ n # m
        /\ q[n].pc = "done"
        /\ Failed(n)
        /\ Len(q[n].response.workflow) >= 3
        /\ Succeeded(m)
\* sequence u is a prefix of sequence w
IsPrefix(u, w) == Len(u) <= Len(w) /\ u = SubSeq(w, 1, Len(u))

\* C14: in every state the trace is a prefix of the eight-entry full trace, so a
\* 'complete' entry always comes right after the 'started' entry of its step, and every
\* step of process_query leaves the entries already in the trace in place: it only appends.
C14_TraceAppendOnly ==
    /\ [](\A n \in Queries :
              /\ IsPrefix(q[n].workflow, FullTrace)
              /\ \A k \in 1..Len(q[n].workflow) :
                    q[n].workflow[k].status = "complete" =>
                        /\ k > 1
                        /\ q[n].workflow[k - 1] = Entry(q[n].workflow[k].step, "started"))
    /\ [][\A n \in Queries : IsPrefix(q[n].workflow, q'[n].workflow)]_vars

\* a query in its third stage: five entries appended so far
C14_Witness ==
    \E n \in Queries :
        /\ q[n].pc = "verify"
        /\ Len(q[n].workflow) = 5
        /\ q[n].workflow[5] = Entry("eligibility", "started")
\* find_credential_for_claim found no credential for claim c in query n
Unbacked(n, c) ==
    \E k \in 1..Len(calls[n]) :
        /\ calls[n][k].op = "find_credential_for_claim"
        /\ calls[n][k].ok
        /\ calls[n][k].ret = "None"
        /\ calls[n][k].arg = c

\* C15: a requested claim for which no credential is found is skipped without an error:
\* share_selective_claims goes on to the next claim or to list_available_claims, and the
\* disclosure it returns has the claim neither in shared, nor in credentials, nor in
\* notShared, even when the citizen lists the claim as available.
C15_UnbackedClaimSkipped ==
    \A n \in Queries : \A c \in Claims :
        Unbacked(n, c) =>
            /\ (/\ LastCall(n).op = "find_credential_for_claim"
                /\ LastCall(n).ok
                /\ LastCall(n).ret = "None") =>
                   /\ q[n].pc \in {"find", "list"}
                   /\ q[n].response = None
            /\ \A k \in 1..Len(q[n].shared) : q[n].shared[k].claim # c
            /\ \A k \in 1..Len(q[n].shared_creds) : c \notin Range(q[n].shared_creds[k].claims)
            /\ q[n].disclosure # None =>
                   /\ q[n].disclosure.shared = q[n].shared
                   /\ q[n].disclosure.credentials = q[n].shared_creds
                   /\ c \notin Range(q[n].disclosure.notShared)
                   /\ Entry("credentials", "complete") \in Range(q[n].workflow)

\* a successful query that requested a backed claim and an unbacked one which the
\* citizen lists as available
C15_Witness ==
    \E n \in Queries : \E c \in Claims :
        /\ Succeeded(n)
        /\ Unbacked(n, c)
        /\ c \in Range(platform.available)
        /\ q[n].response.disclosure.shared # <<>>
        /\ Len(platform.available) = 2
\* the selective_disclose calls of query n that returned, in order
Disclosures(n) == SelectSeq(calls[n], LAMBDA c : c.op = "selective_disclose" /\ c.ok)

\* C16: every selective_disclose call passes exactly one claim, a requested claim for
\* which the find_credential_for_claim call just before it found the credential passed;
\* hence every credential collected was disclosed for exactly one requested claim.
C16_MinimalExposure ==
    \A n \in Queries :
        /\ \A k \in 1..Len(calls[n]) :
              calls[n][k].op = "selective_disclose" =>
                  /\ Len(calls[n][k].arg.claims) = 1
                  /\ calls[n][k].arg.claims[1] \in Range(q[n].policy_info.requiredClaims)
                  /\ k > 1
                  /\ calls[n][k - 1].op = "find_credential_for_claim"
                  /\ calls[n][k - 1].ok
                  /\ calls[n][k - 1].arg = calls[n][k].arg.claims[1]
                  /\ calls[n][k - 1].ret = calls[n][k].arg.credential
                  /\ calls[n][k].arg.credential # "None"
        /\ Len(q[n].shared_creds) = Len(Disclosures(n))
        /\ \A k \in 1..Len(q[n].shared_creds) :
              /\ q[n].shared_creds[k] = Disclosures(n)[k].ret.credential
              /\ Len(q[n].shared_creds[k].claims) = 1
              /\ q[n].shared_creds[k].claims[1] \in Range(q[n].policy_info.requiredClaims)
              /\ q[n].shared_creds[k].claims = Disclosures(n)[k].arg.claims

\* a finished disclosure of two credentials out of three requested claims
C16_Witness ==
    \E n \in Queries :
        /\ q[n].disclosure # None
        /\ Len(q[n].disclosure.credentials) = 2
        /\ Len(q[n].policy_info.requiredClaims) = 3
\* the platform calls of one agent's initialize(), in the order of the code
Setup(a) ==
    IF a = "citizen" THEN <<"initialize", "register", "load_credentials">>
    ELSE <<"initialize", "register">>

\* C17: during initialize_all the platform calls each agent has completed are a prefix
\* of initialize, register (then load_credentials for the citizen), so each is made at
\* most once and in order; register is awaited only on a handle whose initialize
\* returned, load_credentials only on a registered handle, and an agent is done exactly
\* when all its calls returned. The agents advance independently of one another.
C17_SetupOnceInOrder ==
    \A a \in Agents :
        /\ IsPrefix(lifecycle[a], Setup(a))
        /\ ipc[a] \in {"idle", "start", "initialize"} => lifecycle[a] = <<>>
        /\ ipc[a] = "register" => lifecycle[a] = <<"initialize">> /\ agent[a] = "initialized"
        /\ ipc[a] = "load" =>
               a = "citizen" /\ lifecycle[a] = <<"initialize", "register">>
                             /\ agent[a] = "registered"
        /\ ipc[a] = "done" => lifecycle[a] = Setup(a) /\ agent[a] = "registered"
        /\ ipc[a] = "failed" =>
               /\ lifecycle[a] # <<>>
               /\ agent[a] = <<"created", "initialized", "registered">>[Len(lifecycle[a])]
        /\ "register" \in Range(lifecycle[a]) => agent[a] \in {"initialized", "registered"}
        /\ "load_credentials" \in Range(lifecycle[a]) => agent[a] = "registered"

\* one agent is done, the citizen is loading its credentials and another agent is
\* still waiting for the platform's initialize
C17_Witness ==
    /\ ipc["guide"] = "done"
    /\ ipc["citizen"] = "load"
    /\ ipc["policy"] = "initialize"
    /\ ipc["verifier"] = "register"
\* /api/python/init has answered {'status': 'initialized'}
ReportedInitialized ==
    "status" \in DOMAIN initResponse /\ initResponse.status = "initialized"

\* C18: /init answers 'initialized' only when the initialize() of all four agents has
\* returned: every agent is registered, the citizen's credentials are loaded; and when
\* the initialization of any agent has failed, 'initialized' is not answered, whatever
\* the order in which the four initializations ran.
C18_InitializedMeansAllFour ==
    /\ ReportedInitialized =>
           /\ initpc = "done"
           /\ \A a \in Agents :
                 ipc[a] = "done" /\ agent[a] = "registered" /\ lifecycle[a] = Setup(a)
           /\ credentials = LoadedCredentials(platform)
    /\ (\E a \in Agents : ipc[a] = "failed") => ~ReportedInitialized
    /\ initpc = "failed" => ~ReportedInitialized

\* /init has answered 'initialized'
C18_Witness ==
    /\ ReportedInitialized
    /\ \A a \in Agents : ipc[a] = "done"
    /\ orchestrator = "AgentOrchestrator"
\* C19: process_query returns success=true exactly when the four stages completed, the
\* trace being the full eight entries; a success result has the keys success, workflow,
\* credentialRequest, disclosure and eligibilityResult and no error; a failure result
\* has the keys success, error and workflow only, also when the policy, the disclosure
\* or the eligibility result had been computed before the failure.
C19_ResultShape ==
    \A n \in Queries :
        (q[n].pc = "done" /\ ~q[n].escaped) =>
            LET r == q[n].response
            IN  /\ {"success", "workflow"} \subseteq DOMAIN r
                /\ r.success \in BOOLEAN
                /\ r.workflow = q[n].workflow
                /\ r.success <=> r.workflow = FullTrace
                /\ r.success <=> Len(r.workflow) = 8
                /\ r.success <=> q[n].ops = AgentOps /\ calls[n] # <<>> /\ LastCall(n).ok
                /\ r.success =>
                       DOMAIN r = {"success", "workflow", "credentialRequest", "disclosure",
                                   "eligibilityResult"}
                /\ ~r.success => DOMAIN r = {"success", "error", "workflow"}

\* a failure in the guidance stage, after the disclosure and the eligibility result
\* were computed
C19_Witness ==
    \E n \in Queries :
        /\ q[n].pc = "done"
        /\ Failed(n)
        /\ Len(q[n].response.workflow) = 7
        /\ q[n].disclosure # None
        /\ q[n].result # None
        /\ q[n].response.success = FALSE
\* the execute_rules calls of query n that returned
RulesLog(n) == SelectSeq(calls[n], LAMBDA c : c.op = "execute_rules" /\ c.ok)

\* C20: check_eligibility decides Eligible exactly when verify_credential answered True
\* for every presented credential and execute_rules answered all_satisfied; with no
\* credential presented no verify_credential call is made, execute_rules is called once
\* with empty data, and its answer alone decides.
C20_EligibleIffVerifiedAndSatisfied ==
    \A n \in Queries :
        q[n].result # None =>
            LET creds == q[n].disclosure.credentials
                eligible == q[n].result.decision = "Eligible"
                verified == /\ Len(VerifyLog(n)) = Len(creds)
                            /\ \A k \in 1..Len(VerifyLog(n)) :
                                  VerifyLog(n)[k].ok /\ VerifyLog(n)[k].ret
                satisfied == Len(RulesLog(n)) = 1 /\ RulesLog(n)[1].ret.all_satisfied
            IN  /\ q[n].result.decision \in {"Eligible", "Not Eligible"}
                /\ eligible <=> (verified /\ satisfied)
                /\ eligible <=> /\ \A k \in 1..Len(creds) : creds[k].id \in platform.valid
                                /\ platform.all_satisfied
                /\ creds = <<>> =>
                       /\ VerifyLog(n) = <<>>
                       /\ Len(CallsOf(n, "execute_rules")) = 1
                       /\ Len(RulesLog(n)) = 1
                       /\ \A k \in 1..Len(RulesLog(n)) :
                             /\ RulesLog(n)[k].arg.data = <<>>
                             /\ eligible <=> RulesLog(n)[k].ret.all_satisfied

\* claims were requested, none had a credential, and the rule engine said Eligible
C20_Witness ==
    \E n \in Queries :
        /\ q[n].result # None
        /\ q[n].policy_info.requiredClaims # <<>>
        /\ q[n].disclosure.credentials = <<>>
        /\ q[n].result.decision = "Eligible"
====
